---- MODULE Spec2Model ----
(***************************************************************************)
(* Toolbar overflow layout (react-northstar Toolbar.tsx).                  *)
(*                                                                         *)
(* The toolbar renders its items inside an overflow container, followed by *)
(* the overflow indicator ("more" item).  A layout pass (hideOverflowItems)*)
(* measures the container and the items, hides the items that are cropped  *)
(* or would collide with the indicator, positions the indicator and        *)
(* reports the number of visible items through onOverflow.  Passes run     *)
(* from an animation frame scheduled by every render and from a debounced  *)
(* window-resize handler.                                                  *)
(*                                                                         *)
(* Indices of items are 0-based, as in the source.                         *)
(***************************************************************************)
EXTENDS Integers, Sequences, FiniteSets, TLC

\* ---------------------------------------------------------------- bounds

\* Largest number of items in the `items` prop.
MaxItems == 3

\* Largest width of the overflow container the window can be resized to.
MaxWidth == 5

\* Width of the overflow indicator's bounding rectangle.
IndicatorWidth == 1

\* Padding of the root slot when it has one (the distance between the root's
\* padding box, where the offset probe sits, and the overflow container's
\* content box).
Padding == 1

\* The clock of the timed machine advances by this many milliseconds.
TickMs == 8

\* ------------------------------------------------------- values and sets

\* The wait of the debounced resize handler, in milliseconds.
DebounceWait == 16

\* lastVisibleItemIndex.current before any pass has written it (undefined).
Undefined == -2

\* An attribute or inline style that is not set: getAttribute returns null.
Absent == <<>>

\* An attribute or inline style holding value v.
Val(v) == <<v>>

\* JavaScript truthiness of what getAttribute returns: null and "" are falsy.
Truthy(a) == a # Absent /\ a[1] # ""

\* The kinds of item the items prop is drawn from: the width of the item's
\* bounding rectangle, its computed margins and the IS_FOCUSABLE attribute it
\* is rendered with.
ItemKinds ==
  { [w |-> 1, marginLeft |-> 0, marginRight |-> 0, focusable |-> Val("true")],
    [w |-> 2, marginLeft |-> 1, marginRight |-> 0, focusable |-> Absent],
    [w |-> 1, marginLeft |-> 0, marginRight |-> 1, focusable |-> Val("")],
    [w |-> 1, marginLeft |-> 0, marginRight |-> 0, focusable |-> Val("false")] }

\* Names of elements: an item of the toolbar, the overflow indicator, an
\* element outside the toolbar, and no element at all.
ItemEl(i) == [k |-> "item", i |-> i]
IndicatorEl == [k |-> "indicator", i |-> 0]
OutsideEl == [k |-> "outside", i |-> 0]
NoEl == [k |-> "none", i |-> 0]

VARIABLES
  items,                \* props.items: 0..n-1 -> ItemKinds
  rtl,                  \* context.rtl
  padding,              \* padding of the root slot
  overflow,             \* props.overflow
  overflowOpen,         \* props.overflowOpen of the last render
  mounted,              \* the component is mounted (refs are set)
  cWidth,               \* current width of the overflow container
  rendered,             \* number of items rendered as children of the container
  els,                  \* DOM state of each item element
  ovf,                  \* DOM state of the overflow indicator element
  focus,                \* document.activeElement
  lastVisibleItemIndex, \* lastVisibleItemIndex.current
  getOverflowItems,     \* props.getOverflowItems: "none" when not supplied
  menu,                 \* the overflow menu's items as built by the last render
  frame,                \* pending animation-frame callbacks (captured overflowOpen)
  animationFrameId,     \* animationFrameId.current: the callback it names
  timers,               \* pending debounced resize handlers (captured overflowOpen)
  sincePass,            \* ms since a resize handler last ran, up to DebounceWait
  popupProps,           \* the props popupBehavior is called with
  popupAccessibility,   \* what popupBehavior returned for popupProps
  nodeEnv,              \* process.env.NODE_ENV of the build
  last,                 \* the last step taken and what it reported
  calls                 \* callbacks invoked by the last step, in order

vars == <<items, rtl, padding, overflow, overflowOpen, mounted, cWidth, rendered,
          els, ovf, focus, lastVisibleItemIndex,
          getOverflowItems, menu, frame, animationFrameId, timers, sincePass,
          popupProps, popupAccessibility, nodeEnv, last, calls>>

\* What the steps of the toolbar leave alone: the clock of the resize
\* handlers, which only the timed machine reads, and the popup behavior.
aside == <<sincePass, popupProps, popupAccessibility, nodeEnv>>

\* Number of items in the items prop.
NItems == Cardinality(DOMAIN items)

\* ------------------------------------------------------------- the DOM

\* An item element as React mounts it: no inline visibility, the
\* IS_FOCUSABLE attribute of its kind, no WAS_FOCUSABLE attribute.
FreshItem(kind) ==
  [hidden |-> FALSE, isFocusable |-> kind.focusable, wasFocusable |-> Absent]

\* The overflow indicator as React mounts it: in the flow, no inline offsets.
FreshIndicator ==
  [hidden |-> FALSE, isFocusable |-> Val("true"), wasFocusable |-> Absent,
   position |-> "static", left |-> Absent, right |-> Absent]

\* The DOM a pass works on: the rendered item elements (children 0..rendered-1
\* of the overflow container), the indicator (its last child), the focused
\* element, whether the refs are set, and the hide calls of the running pass
\* that found the focus on the element they hide.
Dom ==
  [els |-> els, ovf |-> ovf, focus |-> focus, rendered |-> rendered,
   refs |-> mounted /\ overflow, container |-> mounted, moved |-> <<>>]

Elem(D, t) == IF t.k = "item" THEN D.els[t.i] ELSE D.ovf

SetElem(D, t, e) ==
  IF t.k = "item" THEN [D EXCEPT !.els[t.i] = e] ELSE [D EXCEPT !.ovf = e]

\* An element takes part in keyboard navigation unless its live focusability
\* marker says 'false'.
IsFocusableEl(e) == e.isFocusable # Val("false")

\* The first focusable element inside the container, in DOM order: the
\* rendered items, then the indicator; NoEl if there is none.
getFirstFocusable(D) ==
  LET cand == { i \in 0..(D.rendered - 1) : IsFocusableEl(D.els[i]) }
  IN IF cand # {} THEN ItemEl(CHOOSE i \in cand : \A j \in cand : i <= j)
     ELSE IF IsFocusableEl(D.ovf) THEN IndicatorEl
     ELSE NoEl

\* Whether the element named t is a hidden element of D.
IsHiddenEl(D, t) == t.k \in {"item", "indicator"} /\ Elem(D, t).hidden

\* firstFocusableItem?.focus()
focusOn(D, firstFocusableItem) ==
  IF firstFocusableItem # NoEl THEN [D EXCEPT !.focus = firstFocusableItem] ELSE D

\* hide(el), the part that moves the focus away from el.
hideFocus(D, t) ==
  IF D.focus = t /\ D.container THEN focusOn(D, getFirstFocusable(D)) ELSE D

\* hideMarkers that forgets to set the inline visibility.
hideMarkers_KeepsVisibility(e) ==
  LET wasFocusable == e.isFocusable
      e2 == IF Truthy(wasFocusable) THEN [e EXCEPT !.wasFocusable = wasFocusable] ELSE e
  IN [e2 EXCEPT !.isFocusable = Val("false")]

\* hide(el), the part that marks el hidden and not focusable.
hideMarkers(e) ==
  LET wasFocusable == e.isFocusable
      e1 == [e EXCEPT !.hidden = TRUE]
      e2 == IF Truthy(wasFocusable) THEN [e1 EXCEPT !.wasFocusable = wasFocusable] ELSE e1
  IN [e2 EXCEPT !.isFocusable = Val("false")]

\* hide(el), the part that writes the markers of el into the DOM.
hideElement(D, t) == SetElem(D, t, hideMarkers(Elem(D, t)))

\* The observation a hide call leaves when it found the focus on the element
\* it hides: the element, and in the DOM D2 that hide returns, the focus, the
\* first focusable element and whether the focus sits on a hidden element.
hideObserved(D, D2, t) ==
  IF D.focus = t
  THEN [D2 EXCEPT !.moved = Append(@, [el |-> t, focus |-> D2.focus,
                                       first |-> getFirstFocusable(D2),
                                       onHidden |-> IsHiddenEl(D2, D2.focus)])]
  ELSE D2

\* hide without the early return for an element that is already hidden.
hide_NoEarlyReturn(D, t) == hideObserved(D, hideElement(hideFocus(D, t), t), t)

\* hide(el)
hide(D, t) ==
  IF Elem(D, t).hidden THEN D
  ELSE hideObserved(D, hideElement(hideFocus(D, t), t), t)

\* What show(el) returns: true when el was hidden.
showReturns(D, t) == Elem(D, t).hidden

\* showMarkers that leaves the was-focusable marker on the element.
showMarkers_KeepsWasFocusable(e) ==
  IF Truthy(e.wasFocusable)
  THEN [e EXCEPT !.hidden = FALSE, !.isFocusable = e.wasFocusable]
  ELSE [e EXCEPT !.hidden = FALSE, !.isFocusable = Absent]

\* show(el), the part that restores the markers of a hidden element.
showMarkers(e) ==
  LET wasFocusable == e.wasFocusable
      e1 == [e EXCEPT !.hidden = FALSE]
  IN IF Truthy(wasFocusable)
     THEN [e1 EXCEPT !.isFocusable = wasFocusable, !.wasFocusable = Absent]
     ELSE [e1 EXCEPT !.isFocusable = Absent]

\* show(el): the DOM after the call.
show(D, t) ==
  IF ~Elem(D, t).hidden THEN D ELSE SetElem(D, t, showMarkers(Elem(D, t)))

\* --------------------------------------------------------------- geometry

\* Sum of f[j] over j in 0..(i-1).
RECURSIVE SumBelow(_, _)
SumBelow(f, i) == IF i <= 0 THEN 0 ELSE f[i - 1] + SumBelow(f, i - 1)

\* What getBoundingClientRect and getComputedStyle return during a pass, for
\* items laid out one after another from the container's logical start (the
\* left edge, or the right edge when rtl).  The root's padding box spans
\* 0 .. w + 2 * pad, the container's content box pad .. pad + w; the offset
\* probe has no size and sits at the logical start of the padding box.
LayoutWith(isRtl, pad, w, its, n, indicatorWidth) ==
  LET outer == [i \in 0..(n - 1) |-> its[i].marginLeft + its[i].w + its[i].marginRight]
      cLeft == pad
      cRight == pad + w
      rectOf(i) ==
        IF isRtl
        THEN LET r == cRight - SumBelow(outer, i) - its[i].marginRight
             IN [left |-> r - its[i].w, right |-> r]
        ELSE LET l == cLeft + SumBelow(outer, i) + its[i].marginLeft
             IN [left |-> l, right |-> l + its[i].w]
  IN [rtl |-> isRtl,
      container |-> [left |-> cLeft, right |-> cRight],
      indicator |-> [width |-> indicatorWidth],
      probe |-> IF isRtl THEN [left |-> w + 2 * pad, right |-> w + 2 * pad]
                ELSE [left |-> 0, right |-> 0],
      rects |-> [i \in 0..(n - 1) |-> rectOf(i)],
      marginLeft |-> [i \in 0..(n - 1) |-> its[i].marginLeft],
      marginRight |-> [i \in 0..(n - 1) |-> its[i].marginRight]]

\* The same with an indicator of the model's width.
LayoutOf(isRtl, pad, w, its, n) == LayoutWith(isRtl, pad, w, its, n, IndicatorWidth)

\* The layout of the current state.
Layout == LayoutOf(rtl, padding, cWidth, items, rendered)

\* isItemOverflowing with an edge that touches counted as cropped.
isItemOverflowing_TouchingIsCropped(itemBoundingRect, containerBoundingRect) ==
  \/ itemBoundingRect.right >= containerBoundingRect.right
  \/ itemBoundingRect.left <= containerBoundingRect.left

\* isItemOverflowing(itemBoundingRect, containerBoundingRect)
isItemOverflowing(itemBoundingRect, containerBoundingRect) ==
  \/ itemBoundingRect.right > containerBoundingRect.right
  \/ itemBoundingRect.left < containerBoundingRect.left

\* wouldItemCollide with an indicator that touches the edge counted as a
\* collision.
wouldItemCollide_TouchingCollides(L, i, itemBoundingRect, overflowItemBoundingRect, containerBoundingRect) ==
  IF L.rtl
  THEN itemBoundingRect.left - overflowItemBoundingRect.width - L.marginLeft[i]
         <= containerBoundingRect.left
  ELSE itemBoundingRect.right + overflowItemBoundingRect.width + L.marginRight[i]
         >= containerBoundingRect.right

\* wouldItemCollide reading the right margin in both directions.
wouldItemCollide_RightMarginOnly(L, i, itemBoundingRect, overflowItemBoundingRect, containerBoundingRect) ==
  IF L.rtl
  THEN itemBoundingRect.left - overflowItemBoundingRect.width - L.marginRight[i]
         < containerBoundingRect.left
  ELSE itemBoundingRect.right + overflowItemBoundingRect.width + L.marginRight[i]
         > containerBoundingRect.right

\* wouldItemCollide($item, itemBoundingRect, overflowItemBoundingRect, containerBoundingRect)
wouldItemCollide(L, i, itemBoundingRect, overflowItemBoundingRect, containerBoundingRect) ==
  IF L.rtl
  THEN LET itemLeftMargin == L.marginLeft[i]
       IN itemBoundingRect.left - overflowItemBoundingRect.width - itemLeftMargin
            < containerBoundingRect.left
  ELSE LET itemRightMargin == L.marginRight[i]
       IN itemBoundingRect.right + overflowItemBoundingRect.width + itemRightMargin
            > containerBoundingRect.right

\* absolutePositioningOffset.horizontal
absolutePositioningOffset(L) ==
  IF L.rtl THEN L.probe.right - L.container.right
  ELSE L.container.left - L.probe.left

\* setOverflowPosition without the positioning correction.
setOverflowPosition_NoCorrection(S, L, offset) ==
  IF S.lastVisibleItem # Undefined
  THEN IF L.rtl
       THEN [S EXCEPT !.D.ovf.right =
               Val(L.container.right - S.lastVisibleItemRect.left
                   + L.marginLeft[S.lastVisibleItem])]
       ELSE [S EXCEPT !.D.ovf.left =
               Val(S.lastVisibleItemRect.right - L.container.left
                   + L.marginRight[S.lastVisibleItem])]
  ELSE IF L.rtl
       THEN [S EXCEPT !.lvi = -1, !.D.ovf.right = Val(0)]
       ELSE [S EXCEPT !.lvi = -1, !.D.ovf.left = Val(0)]

\* setOverflowPosition: the inline offset of the indicator, and -1 written to
\* lastVisibleItemIndex when there is no last visible item.  S holds the DOM
\* (S.D), the pass's $lastVisibleItem and lastVisibleItemRect, and
\* lastVisibleItemIndex.current (S.lvi).
setOverflowPosition(S, L, offset) ==
  IF S.lastVisibleItem # Undefined
  THEN IF L.rtl
       THEN [S EXCEPT !.D.ovf.right =
               Val(L.container.right - S.lastVisibleItemRect.left
                   + L.marginLeft[S.lastVisibleItem] + offset)]
       ELSE [S EXCEPT !.D.ovf.left =
               Val(S.lastVisibleItemRect.right - L.container.left
                   + L.marginRight[S.lastVisibleItem] + offset)]
  ELSE IF L.rtl
       THEN [S EXCEPT !.lvi = -1, !.D.ovf.right = Val(offset)]
       ELSE [S EXCEPT !.lvi = -1, !.D.ovf.left = Val(offset)]

\* The loop of hideOverflowItems: _.forEachRight over the container's
\* children, from child i down; the callback returning false ends the loop.
RECURSIVE scanItems(_, _, _)

\* The callback's last statement, `return show($item)`, on the pass state S1
\* that has recorded the last visible item: the loop goes on to child i - 1
\* when show returned true.
scanShow(i, S1, L) ==
  IF showReturns(S1.D, ItemEl(i))
  THEN scanItems(i - 1, [S1 EXCEPT !.D = show(@, ItemEl(i))], L)
  ELSE [S1 EXCEPT !.D = show(@, ItemEl(i))]

scanItems(i, S, L) ==
  IF i < 0 THEN S
  ELSE IF i = S.D.rendered THEN scanItems(i - 1, S, L)  \* $item === $overflowItem
  ELSE
    LET itemBoundingRect == L.rects[i]
    IN IF isItemOverflowing(itemBoundingRect, L.container)
       THEN scanItems(i - 1, [S EXCEPT !.isOverflowing = TRUE,
                                       !.cropped = @ \cup {i},
                                       !.D = hide(@, ItemEl(i))], L)
       ELSE IF /\ S.isOverflowing
               /\ S.lastVisibleItem = Undefined
               /\ wouldItemCollide(L, i, itemBoundingRect, L.indicator, L.container)
       THEN scanItems(i - 1, [S EXCEPT !.D = hide(@, ItemEl(i))], L)
       ELSE scanShow(i, IF S.lastVisibleItem = Undefined
                        THEN [S EXCEPT !.lastVisibleItem = i,
                                       !.lastVisibleItemRect = itemBoundingRect,
                                       !.lvi = i]
                        ELSE S, L)

\* showsOverflowItem that ignores what the scan found.
showsOverflowItem_IgnoresOverflow(isOverflowing, open) == open

\* showsOverflowItem that ignores overflowOpen.
showsOverflowItem_IgnoresOpen(isOverflowing, open) == isOverflowing

\* invokeOnOverflow that reports the index instead of the count.
invokeOnOverflow_Index(lvi) == <<[cb |-> "onOverflow", arg |-> lvi]>>

\* The test that decides between showing and hiding the indicator.
showsOverflowItem(isOverflowing, open) == isOverflowing \/ open

\* _.invoke(props, 'onOverflow', lastVisibleItemIndex.current + 1)
invokeOnOverflow(lvi) == <<[cb |-> "onOverflow", arg |-> lvi + 1]>>

\* hideOverflowItems after its loop, on the pass state S the loop left: the
\* indicator is positioned and shown, or hidden with the index set to the
\* last item.
placeOverflowItem(S, L, open, nItems) ==
  IF showsOverflowItem(S.isOverflowing, open)
  THEN [setOverflowPosition([S EXCEPT !.D.ovf.position = "absolute"], L,
                            absolutePositioningOffset(L))
          EXCEPT !.D = show(@, IndicatorEl)]
  ELSE [S EXCEPT !.lvi = nItems - 1, !.D = hide(@, IndicatorEl)]

\* The end of hideOverflowItems on the pass state T: onOverflow is invoked
\* with the index plus one.
passResult(T) ==
  [D |-> T.D, lvi |-> T.lvi, completed |-> TRUE, isOverflowing |-> T.isOverflowing,
   cropped |-> T.cropped, lastVisibleItem |-> T.lastVisibleItem,
   calls |-> invokeOnOverflow(T.lvi)]

\* hideOverflowItems without the check of the refs.
hideOverflowItems_NoRefsCheck(D, L, open, nItems, lvi) ==
  passResult(
    placeOverflowItem(
      scanItems(D.rendered,
                [D |-> D, isOverflowing |-> FALSE, cropped |-> {},
                 lastVisibleItem |-> Undefined,
                 lastVisibleItemRect |-> [left |-> 0, right |-> 0],
                 lvi |-> lvi], L),
      L, open, nItems))

\* hideOverflowItems() of a render whose overflowOpen prop is `open` and
\* whose items prop has nItems items, on DOM D with layout L and
\* lastVisibleItemIndex.current = lvi.  The result holds the DOM and the
\* index after the pass, whether the pass ran to its end, whether the scan
\* found an overflow, the items it found cropped, the $lastVisibleItem it
\* chose, and the callbacks invoked.
hideOverflowItems(D, L, open, nItems, lvi) ==
  IF ~D.refs
  THEN [D |-> D, lvi |-> lvi, completed |-> FALSE, isOverflowing |-> FALSE,
        cropped |-> {}, lastVisibleItem |-> Undefined, calls |-> <<>>]
  ELSE passResult(
         placeOverflowItem(
           scanItems(D.rendered,
                     [D |-> D, isOverflowing |-> FALSE, cropped |-> {},
                      lastVisibleItem |-> Undefined,
                      lastVisibleItemRect |-> [left |-> 0, right |-> 0],
                      lvi |-> lvi], L),
           L, open, nItems))

\* ----------------------------------------------------------------- render

\* lastVisibleItemIndex.current + 1 as JavaScript computes it: undefined + 1
\* is NaN.
NaN == Undefined - 1
PlusOne(x) == IF x = Undefined THEN NaN ELSE x + 1

\* The relative index Array.prototype.slice makes of an argument: NaN counts
\* as 0, a negative index counts from the end, and the result is clamped to
\* 0..len.
SliceIndex(x, len) ==
  IF x = NaN THEN 0
  ELSE IF x < 0 THEN (IF len + x < 0 THEN 0 ELSE len + x)
  ELSE IF x > len THEN len ELSE x

\* s.slice(start, end) on a sequence (element k of the array is s[k + 1]).
slice(s, start, end) ==
  LET from == SliceIndex(start, Len(s))
      to == SliceIndex(end, Len(s))
  IN IF to <= from THEN <<>> ELSE SubSeq(s, from + 1, to)

\* The items prop as the list of its item indices.
ItemList(n) == [k \in 1..n |-> k - 1]

\* The overrides a caller may supply as getOverflowItems: "tail" returns the
\* items from startIndex on, "all" returns every item whatever startIndex is.
Getters == {"tail", "all"}
CallGetter(g, startIndex, n) ==
  IF g = "tail" THEN slice(ItemList(n), startIndex, n) ELSE ItemList(n)

\* collectOverflowItems()
collectOverflowItems(g, lvi, n) ==
  IF g # "none" THEN CallGetter(g, PlusOne(lvi), n)
  ELSE slice(ItemList(n), PlusOne(lvi), n)

\* getVisibleItems that ends the slice at the last visible index.
getVisibleItems_EndsAtIndex(open, lvi, n) ==
  LET end == IF open THEN lvi ELSE n
  IN slice(ItemList(n), 0, end)

\* getVisibleItems()
getVisibleItems(open, lvi, n) ==
  LET end == IF open THEN PlusOne(lvi) ELSE n
  IN slice(ItemList(n), 0, end)

\* The items rendered as children: renderItems(getVisibleItems()) with the
\* overflow prop, renderItems(items) without it.
RenderedItems(isOverflow, open, lvi, n) ==
  IF isOverflow THEN getVisibleItems(open, lvi, n) ELSE ItemList(n)

\* renderOverflowItem: the menu's items.
MenuItems(isOverflow, open, g, lvi, n) ==
  IF isOverflow /\ open THEN collectOverflowItems(g, lvi, n) ELSE <<>>

\* What a step that is no layout pass leaves in `last`.
NoPass ==
  [op |-> "none", completed |-> FALSE, isOverflowing |-> FALSE, cropped |-> {},
   lastVisibleItem |-> Undefined, moved |-> <<>>, open |-> FALSE]

\* What a render leaves in `last`.
Rendered == [NoPass EXCEPT !.op = "render"]

\* ------------------------------------------------------------ the machine

\* cancelAnimationFrame that cancels nothing.
cancelAnimationFrame_Forgets(pending, id) == pending

\* window.cancelAnimationFrame(id) on the pending callbacks: a callback is
\* named by the overflowOpen its closure captured, and an id that names no
\* pending callback (undefined, or a callback that has run) cancels nothing.
cancelAnimationFrame(pending, id) == pending \ {id}

\* window.requestAnimationFrame(() => hideOverflowItems()) by a render whose
\* overflowOpen is `open`.
requestAnimationFrame(pending, open) == pending \cup {open}

\* The callbacks a debounced resize handler invokes after its pass, always.
resizeCallbacks_Always(open) ==
  <<[cb |-> "onOverflowOpenChange", overflowOpen |-> FALSE]>>

\* The callbacks a debounced resize handler invokes after its pass:
\* onOverflowOpenChange(e, {...props, overflowOpen: false}) if its
\* overflowOpen is true.
resizeCallbacks(open) ==
  IF open THEN <<[cb |-> "onOverflowOpenChange", overflowOpen |-> FALSE]>> ELSE <<>>

\* The state after the first render of a toolbar whose items are drawn from
\* `kinds`, in a direction of `dirs`, with a root padding of `pads`, in a
\* container whose width is one of `widths`.
InitOf(kinds, dirs, pads, widths) ==
  /\ \E n \in 0..MaxItems : items \in [0..(n - 1) -> kinds]
  /\ rtl \in dirs
  /\ padding \in pads
  /\ overflow \in BOOLEAN
  /\ overflowOpen \in BOOLEAN
  /\ getOverflowItems \in {"none"} \cup Getters
  \* overflowOpen is only valid with the overflow prop, and only then does a
  \* render call getOverflowItems; an override is tried on items of one kind.
  /\ ~overflow => ~overflowOpen
  /\ getOverflowItems # "none" =>
       /\ overflow
       /\ \A i \in DOMAIN items : \A j \in DOMAIN items : items[i] = items[j]
  /\ mounted = TRUE
  /\ cWidth \in widths
  /\ rendered = Len(RenderedItems(overflow, overflowOpen, Undefined, NItems))
  /\ els = [i \in DOMAIN items |-> FreshItem(items[i])]
  /\ ovf = FreshIndicator
  /\ focus = OutsideEl
  /\ lastVisibleItemIndex = Undefined
  /\ menu = MenuItems(overflow, overflowOpen, getOverflowItems, Undefined, NItems)
  /\ frame = requestAnimationFrame({}, overflowOpen)
  /\ animationFrameId = overflowOpen
  /\ timers = {}
  /\ sincePass = DebounceWait
  /\ popupProps = <<>>
  /\ popupAccessibility = <<>>
  /\ nodeEnv = "development"
  /\ last = NoPass
  /\ calls = <<>>

\* Toolbars of focusable items that differ in width and margins.
LayoutKinds == { k \in ItemKinds : k.focusable # Val("false") }

Init == InitOf(LayoutKinds, BOOLEAN, {Padding}, {MaxWidth})

\* The component function runs again with overflowOpen = open: React keeps
\* the elements of the items that stay rendered as they are, mounts fresh
\* elements for the others, and the effect cancels the pending animation
\* frame and requests a new one.  The debounced handler the render creates
\* is a new one: `handlers` is what becomes of the pending ones.
RenderStep(open, handlers) ==
  /\ mounted
  /\ LET shown == RenderedItems(overflow, open, lastVisibleItemIndex, NItems)
     IN /\ rendered' = Len(shown)
        /\ els' = [i \in DOMAIN items |->
                     IF i < Len(shown) /\ i < rendered THEN els[i] ELSE FreshItem(items[i])]
        /\ focus' = IF focus.k = "item" /\ focus.i >= Len(shown) THEN OutsideEl ELSE focus
  /\ overflowOpen' = open
  /\ menu' = MenuItems(overflow, open, getOverflowItems, lastVisibleItemIndex, NItems)
  /\ frame' = requestAnimationFrame(cancelAnimationFrame(frame, animationFrameId), open)
  /\ animationFrameId' = open
  /\ last' = Rendered
  /\ calls' = <<>>
  /\ timers' = handlers
  /\ UNCHANGED <<items, rtl, padding, overflow, getOverflowItems, mounted, cWidth, ovf,
                 lastVisibleItemIndex>>
  /\ UNCHANGED aside

\* A render: the pending handlers of earlier renders stay pending.
Render(open) == RenderStep(open, timers)

\* What a layout pass with result R writes: the DOM, the index ref, and the
\* record of the step.
PassEffects(R, op, open, more) ==
  /\ els' = R.D.els
  /\ ovf' = R.D.ovf
  /\ focus' = R.D.focus
  /\ lastVisibleItemIndex' = R.lvi
  /\ last' = [op |-> op, completed |-> R.completed, isOverflowing |-> R.isOverflowing,
              cropped |-> R.cropped, lastVisibleItem |-> R.lastVisibleItem,
              moved |-> R.D.moved, open |-> open]
  /\ calls' = R.calls \o more

\* A layout pass of a closure that captured overflowOpen = open, measuring
\* layout L, and the callbacks `more` invoked after it.
PassStep(L, op, open, more) ==
  PassEffects(hideOverflowItems(Dom, L, open, NItems, lastVisibleItemIndex),
              op, open, more)

\* The same, measuring the layout of the current state.
RunPass(op, open, more) == PassStep(Layout, op, open, more)

\* A pending animation-frame callback runs, with the overflowOpen of the
\* render that requested it, and measures layout L.
FrameFireWith(L, open) ==
  /\ open \in frame
  /\ PassStep(L, "frame", open, <<>>)
  /\ frame' = frame \ {open}
  /\ UNCHANGED <<items, rtl, padding, overflow, overflowOpen, getOverflowItems, mounted,
                 cWidth, rendered, menu, animationFrameId, timers>>
  /\ UNCHANGED aside

\* The same, measuring the layout of the current state.
FrameFire(open) == FrameFireWith(Layout, open)

\* The window is resized: the container gets width w, and the resize
\* listener (attached only with the overflow prop) arms the debounced handler
\* of the last render.
Resize(w) ==
  /\ mounted
  /\ w # cWidth
  /\ cWidth' = w
  /\ timers' = IF overflow THEN timers \cup {overflowOpen} ELSE timers
  /\ last' = NoPass
  /\ calls' = <<>>
  /\ UNCHANGED <<items, rtl, padding, overflow, overflowOpen, getOverflowItems, mounted,
                 rendered, els, ovf, focus, lastVisibleItemIndex, menu, frame,
                 animationFrameId>>
  /\ UNCHANGED aside

\* A debounced handleWindowResize runs, with the props of the render that
\* created it, and measures layout L.
TimerFireWith(L, open) ==
  /\ open \in timers
  /\ timers' = timers \ {open}
  /\ PassStep(L, "resize-handler", open, resizeCallbacks(open))
  /\ UNCHANGED <<items, rtl, padding, overflow, overflowOpen, getOverflowItems, mounted,
                 cWidth, rendered, menu, frame, animationFrameId>>
  /\ UNCHANGED aside

\* The same, measuring the layout of the current state.
TimerFire(open) == TimerFireWith(Layout, open)

\* The user moves the focus to a visible, focusable element of the toolbar,
\* or out of it.
Focus(t) ==
  /\ mounted
  /\ t # focus
  /\ \/ t = OutsideEl
     \/ /\ t.k = "item" /\ t.i < rendered
        /\ ~els[t.i].hidden /\ IsFocusableEl(els[t.i])
     \/ /\ t = IndicatorEl /\ overflow
        /\ ~ovf.hidden /\ IsFocusableEl(ovf)
  /\ focus' = t
  /\ last' = NoPass
  /\ calls' = <<>>
  /\ UNCHANGED <<items, rtl, padding, overflow, overflowOpen, getOverflowItems, mounted,
                 cWidth, rendered, els, ovf, lastVisibleItemIndex, menu, frame,
                 animationFrameId, timers>>
  /\ UNCHANGED aside

\* The component is torn down: the effect's cleanup cancels the pending
\* frame, the elements leave the document and the refs are unset.  Debounced
\* handlers that are pending stay pending.
Unmount ==
  /\ mounted
  /\ mounted' = FALSE
  /\ frame' = cancelAnimationFrame(frame, animationFrameId)
  /\ animationFrameId' = Undefined
  /\ rendered' = 0
  /\ els' = [i \in DOMAIN items |-> FreshItem(items[i])]
  /\ ovf' = FreshIndicator
  /\ focus' = OutsideEl
  /\ menu' = <<>>
  /\ last' = NoPass
  /\ calls' = <<>>
  /\ UNCHANGED <<items, rtl, padding, overflow, overflowOpen, getOverflowItems, cWidth,
                 lastVisibleItemIndex, timers>>
  /\ UNCHANGED aside

Next ==
  \/ \E open \in BOOLEAN : Render(open)
  \/ \E open \in BOOLEAN : FrameFire(open)
  \/ \E w \in 0..MaxWidth : Resize(w)
  \/ \E open \in BOOLEAN : TimerFire(open)
  \/ Unmount

Spec == Init /\ [][Next]_vars

\* The same machine with a user who moves the keyboard focus, on toolbars of
\* focusable and non-focusable items.
FocusKinds == { k \in ItemKinds : k.focusable \in {Val("true"), Val("false")} }

InitFocus == InitOf(FocusKinds, {FALSE}, {Padding}, {MaxWidth}) /\ overflow /\ getOverflowItems = "none"

NextFocus ==
  \/ Next
  \/ \E i \in DOMAIN items : Focus(ItemEl(i))
  \/ Focus(IndicatorEl)
  \/ Focus(OutsideEl)

SpecFocus == InitFocus /\ [][NextFocus]_vars

\* The worked scenario, in pixels: a container 300 wide, an indicator 30
\* wide, and items 100, 120 and 120 wide without margins.
Scenario == [container |-> 300, indicator |-> 30, widths |-> <<100, 120, 120>>]

\* Items of the scenario's widths.
ScenarioKinds ==
  { [w |-> Scenario.widths[k], marginLeft |-> 0, marginRight |-> 0,
     focusable |-> Val("true")] : k \in DOMAIN Scenario.widths }

\* Container widths around the scenario's: some crop the second item, one
\* makes it collide with the indicator by a pixel, one lets it touch the
\* indicator, one holds all three items.
ScenarioWidths == {100, 220, 249, 250, Scenario.container, 340}

\* The layout of the current state with the scenario's indicator.
ScenarioLayout ==
  LayoutWith(rtl, padding, cWidth, items, rendered, Scenario.indicator)

\* Left-to-right toolbars of scenario items, without padding on the root
\* (no positioning correction), rendered with overflow and the menu closed.
InitScenario ==
  /\ InitOf(ScenarioKinds, {FALSE}, {0}, ScenarioWidths)
  /\ overflow /\ ~overflowOpen /\ getOverflowItems = "none"

NextScenario ==
  \/ \E open \in BOOLEAN : FrameFireWith(ScenarioLayout, open)
  \/ \E w \in ScenarioWidths : Resize(w)
  \/ TimerFireWith(ScenarioLayout, FALSE)
  \/ Render(FALSE)

SpecScenario == InitScenario /\ [][NextScenario]_vars

\* The machine with a clock.  A pending debounced handler is a record of the
\* overflowOpen its closure captured, the milliseconds left until it is due,
\* and whether it is the handler of the last render (the one the resize
\* listener calls).

\* A resize event calls the debounced handler of the last render: its timer
\* is started, or restarted when it is pending.
debounceCall(handlers, open) ==
  { h \in handlers : ~h.cur } \cup {[open |-> open, left |-> DebounceWait, cur |-> TRUE]}

\* The pending handlers after a render that shares one debounced handler
\* between renders.
supersede_SharedHandler(handlers) == handlers

\* The pending handlers after a render: the render has created a debounced
\* handler of its own, and the pending ones are no longer the listener's.
supersede(handlers) == { [h EXCEPT !.cur = FALSE] : h \in handlers }

TimedRender(open) == RenderStep(open, supersede(timers))

TimedResize(w) ==
  /\ mounted
  /\ w # cWidth
  /\ cWidth' = w
  /\ timers' = IF overflow THEN debounceCall(timers, overflowOpen) ELSE timers
  /\ last' = NoPass
  /\ calls' = <<>>
  /\ UNCHANGED <<items, rtl, padding, overflow, overflowOpen, getOverflowItems, mounted,
                 rendered, els, ovf, focus, lastVisibleItemIndex, menu, frame,
                 animationFrameId>>
  /\ UNCHANGED aside

\* A pending handler that is due runs.
TimedFire(h) ==
  /\ h \in timers
  /\ h.left <= 0
  /\ timers' = timers \ {h}
  /\ sincePass' = 0
  /\ PassStep(Layout, "resize-handler", h.open, resizeCallbacks(h.open))
  /\ UNCHANGED <<items, rtl, padding, overflow, overflowOpen, getOverflowItems, mounted,
                 cWidth, rendered, menu, frame, animationFrameId, popupProps,
                 popupAccessibility, nodeEnv>>

\* Time passes, while no pending handler is due.
Tick ==
  /\ \A h \in timers : h.left > 0
  /\ timers # {} \/ sincePass < DebounceWait
  /\ timers' = { [h EXCEPT !.left = @ - TickMs] : h \in timers }
  /\ sincePass' = IF sincePass + TickMs < DebounceWait THEN sincePass + TickMs
                  ELSE DebounceWait
  /\ last' = NoPass
  /\ calls' = <<>>
  /\ UNCHANGED <<items, rtl, padding, overflow, overflowOpen, getOverflowItems, mounted,
                 cWidth, rendered, els, ovf, focus, lastVisibleItemIndex, menu, frame,
                 animationFrameId, popupProps, popupAccessibility, nodeEnv>>

\* Toolbars of at most two items of one kind, left to right, with overflow.
InitTimed ==
  /\ InitOf({ k \in ItemKinds : k.focusable = Val("true") }, {FALSE}, {Padding}, {MaxWidth})
  /\ overflow /\ getOverflowItems = "none" /\ NItems <= 2

NextTimed ==
  \/ \E open \in BOOLEAN : TimedRender(open)
  \/ \E open \in BOOLEAN : FrameFire(open)
  \/ \E w \in {1, MaxWidth} : TimedResize(w)
  \/ \E h \in timers : TimedFire(h)
  \/ Tick
  \/ Unmount

SpecTimed == InitTimed /\ [][NextTimed]_vars

\* ---------------------------------------------------- the popup behavior

\* JavaScript values, as a type and the text of the value: the strings of
\* an array of strings, the characters of a string, the literal of a boolean
\* or number.
JsUndefined == [type |-> "undefined", v |-> <<>>]
JsBoolean(b) == [type |-> "boolean", v |-> <<IF b THEN "true" ELSE "false">>]
JsString(s) == [type |-> "string", v |-> <<s>>]
JsNumber(literal) == [type |-> "number", v |-> <<literal>>]
JsObject == [type |-> "object", v |-> <<>>]
JsArray(elements) == [type |-> "array", v |-> elements]

\* ToBoolean: undefined, false, 0 and "" are falsy, every object is truthy.
ToBoolean(x) ==
  CASE x.type = "undefined" -> FALSE
    [] x.type = "boolean" -> x.v[1] = "true"
    [] x.type = "string" -> x.v[1] # ""
    [] x.type = "number" -> x.v[1] # "0"
    [] OTHER -> TRUE

\* a && b: a when a is falsy, b otherwise.
JsAnd(a, b) == IF ToBoolean(a) THEN b ELSE a

\* _.isArray
isArray(x) == x.type = "array"

\* _.includes(array, string), for an array of strings and undefined.
includes(array, s) ==
  JsBoolean(\E k \in DOMAIN array : array[k] = JsString(s))

\* An object literal without properties, and what spreading undefined adds.
EmptyObject == [key \in {} |-> JsUndefined]

\* Whether an object has a property, and the property (undefined without).
HasProperty(obj, key) == key \in DOMAIN obj
Property(obj, key) == IF HasProperty(obj, key) THEN obj[key] ELSE JsUndefined

\* The key codes the behavior binds.
Escape == "Escape"
Enter == "Enter"
SpacebarKey == " "
ScrollKeys == <<"ArrowDown", "ArrowUp", "PageDown", "PageUp", "Home", "End">>

\* The trigger events of a popup.
PopupEvents == {"click", "hover", "focus", "context"}

\* Longest array given as the `on` prop.
MaxOn == 2

\* The arrays of distinct trigger events of a given length.
EventArrays(len) ==
  { a \in [1..len -> PopupEvents] : \A i \in 1..len : \A j \in 1..len : a[i] = a[j] => i = j }

\* Values of the `on` prop: not given, one event, or an array of events.
OnValues ==
  {JsUndefined} \cup { JsString(ev) : ev \in PopupEvents }
    \cup { JsArray(a) : a \in UNION { EventArrays(len) : len \in 0..MaxOn } }

\* Trigger elements: the element type, and the `as`, `href` and `tabIndex`
\* props it was created with.  A trigger of undefined is no trigger.
TriggerElements ==
  [ type : { JsString(t) : t \in {"button", "input", "a", "div"} },
    as : {JsUndefined, JsString("button")},
    href : {JsUndefined, JsString("#")},
    tabIndex : {JsUndefined, JsString(""), JsString("-1"), JsNumber("0")} ]

\* The props popupBehavior is called with.
PopupBehaviorProps ==
  [ trapFocus : {JsUndefined, JsBoolean(FALSE), JsBoolean(TRUE), JsObject},
    on : OnValues,
    disabled : {JsUndefined, JsBoolean(FALSE), JsBoolean(TRUE)},
    trigger : {<<>>} \cup { <<t>> : t \in TriggerElements },
    tabbableTrigger : {JsUndefined, JsBoolean(FALSE), JsBoolean(TRUE)},
    isOpenedByRightClick : {JsUndefined, JsBoolean(FALSE), JsBoolean(TRUE)} ]

isFocusable(as, href, type) ==
  \/ type = JsString("button")
  \/ type = JsString("input")
  \/ type = JsString("a") /\ href # JsUndefined
  \/ as = JsString("button")

\* getAriaAttributeFromProps('tabIndex', props, defaultValue)
getAriaAttributeFromProps(props, defaultValue) ==
  IF props.trigger = <<>> THEN JsUndefined
  ELSE IF ToBoolean(props.trigger[1].tabIndex) THEN props.trigger[1].tabIndex
  ELSE IF isFocusable(props.trigger[1].as, props.trigger[1].href, props.trigger[1].type)
       THEN JsUndefined
  ELSE defaultValue

\* The elements of onAsArray: those of the array of strings props.on, or
\* props.on alone.
onAsArray(props) ==
  IF isArray(props.on) THEN [k \in DOMAIN props.on.v |-> JsString(props.on.v[k])]
  ELSE <<props.on>>

tabbableTriggerProps(props, env) ==
  IF ToBoolean(props.tabbableTrigger)
  THEN ("tabIndex" :> getAriaAttributeFromProps(props, JsNumber("0")))
         @@ ("aria-haspopup" :> JsString("true"))
         @@ (IF env # "production" THEN "data-aa-class" :> JsString("PopupButton")
             ELSE EmptyObject)
  ELSE EmptyObject

triggerAttributes(props, env) ==
  ("aria-disabled" :> props.disabled) @@ tabbableTriggerProps(props, env)

popupAttributes(props) ==
  ("role" :> JsString(IF ToBoolean(props.trapFocus) THEN "dialog" ELSE "complementary"))
    @@ ("aria-modal" :> IF ToBoolean(props.trapFocus) THEN JsBoolean(TRUE) ELSE JsUndefined)

preventScrollKeys(props) ==
  JsAnd(props.isOpenedByRightClick,
        JsAnd(includes(onAsArray(props), "context"), JsArray(ScrollKeys)))

\* Enter and Space open the popup whenever 'hover' is among the events.
openKeys_IgnoresContext(props) ==
  JsAnd(includes(onAsArray(props), "hover"), JsArray(<<Enter, SpacebarKey>>))

toggleKeys(props) ==
  JsAnd(includes(onAsArray(props), "click"), JsArray(<<Enter, SpacebarKey>>))

openKeys(props) ==
  JsAnd(includes(onAsArray(props), "hover"),
        JsAnd(JsBoolean(~ToBoolean(includes(onAsArray(props), "context"))),
              JsArray(<<Enter, SpacebarKey>>)))

popupBehavior(props, env) ==
  [ attributes |->
      [ trigger |-> triggerAttributes(props, env),
        popup |-> popupAttributes(props) ],
    keyActions |->
      [ popup |->
          [ closeAndFocusTrigger |-> [keyCombinations |-> JsArray(<<Escape>>)],
            preventScroll |-> [keyCombinations |-> preventScrollKeys(props)] ],
        trigger |->
          [ close |-> [keyCombinations |-> JsArray(<<Escape>>)],
            toggle |-> [keyCombinations |-> toggleKeys(props)],
            open |-> [keyCombinations |-> openKeys(props)] ] ] ]

\* A popup about to be rendered with some props, in some build, and no
\* toolbar.
InitPopup ==
  /\ popupProps \in PopupBehaviorProps
  /\ nodeEnv \in {"production", "development"}
  /\ popupAccessibility = <<>>
  /\ items = <<>>
  /\ rtl = FALSE
  /\ padding = Padding
  /\ overflow = FALSE
  /\ overflowOpen = FALSE
  /\ getOverflowItems = "none"
  /\ mounted = FALSE
  /\ cWidth = MaxWidth
  /\ rendered = 0
  /\ els = <<>>
  /\ ovf = FreshIndicator
  /\ focus = OutsideEl
  /\ lastVisibleItemIndex = Undefined
  /\ menu = <<>>
  /\ frame = {}
  /\ animationFrameId = Undefined
  /\ timers = {}
  /\ sincePass = DebounceWait
  /\ last = NoPass
  /\ calls = <<>>

\* The popup is rendered: the behavior is called with its props.
ApplyBehavior ==
  /\ popupAccessibility = <<>>
  /\ popupAccessibility' = <<popupBehavior(popupProps, nodeEnv)>>
  /\ UNCHANGED <<items, rtl, padding, overflow, overflowOpen, mounted, cWidth, rendered,
                 els, ovf, focus, lastVisibleItemIndex, getOverflowItems, menu, frame,
                 animationFrameId, timers, sincePass, popupProps, nodeEnv, last, calls>>

NextPopup == ApplyBehavior

SpecPopup == InitPopup /\ [][NextPopup]_vars

\* ------------------------------------------------- hide and show by hand

\* What a call of hide or show that returns DOM D writes.
CallEffects(D, op) ==
  /\ els' = D.els
  /\ ovf' = D.ovf
  /\ focus' = D.focus
  /\ last' = [NoPass EXCEPT !.op = op, !.moved = D.moved]
  /\ calls' = <<>>
  /\ UNCHANGED <<items, rtl, padding, overflow, overflowOpen, getOverflowItems, mounted,
                 cWidth, rendered, lastVisibleItemIndex, menu, frame, animationFrameId,
                 timers>>
  /\ UNCHANGED aside

\* The elements hide and show are called on: the rendered items and the
\* indicator.
Shown == { ItemEl(i) : i \in 0..(rendered - 1) } \cup {IndicatorEl}

\* hide(el) is called, whatever the state of el.
HideCall(t) == mounted /\ t \in Shown /\ CallEffects(hide(Dom, t), "hide")

\* show(el) is called, whatever the state of el.
ShowCall(t) == mounted /\ t \in Shown /\ CallEffects(show(Dom, t), "show")

\* Left-to-right toolbars of items of every kind, with overflow.
InitItem ==
  /\ InitOf(ItemKinds, {FALSE}, {Padding}, {MaxWidth})
  /\ overflow /\ ~overflowOpen /\ getOverflowItems = "none"

\* hide and show are called in any order on any element, while the user
\* moves the focus.
NextItem ==
  \/ \E i \in DOMAIN items : HideCall(ItemEl(i))
  \/ HideCall(IndicatorEl)
  \/ \E i \in DOMAIN items : ShowCall(ItemEl(i))
  \/ ShowCall(IndicatorEl)
  \/ \E i \in DOMAIN items : Focus(ItemEl(i))
  \/ Focus(IndicatorEl)
  \/ Focus(OutsideEl)

SpecItem == InitItem /\ [][NextItem]_vars

\* ------------------------------------------------------------ properties

\* The last step was a layout pass; it ran to its end.
PassRan == last.op \in {"frame", "resize-handler"}
PassCompleted == PassRan /\ last.completed

\* The item's rectangle lies within the container's horizontal bounds.
Fits(i) ==
  /\ Layout.rects[i].left >= Layout.container.left
  /\ Layout.rects[i].right <= Layout.container.right

\* The real items: the children of the container other than the indicator.
RealItems == 0..(rendered - 1)

\* The real items that are visible.
VisibleItems == { i \in RealItems : ~els[i].hidden }

\* The arguments of the onOverflow calls of the last step, in order.
OnOverflowArgs == [k \in { j \in DOMAIN calls : calls[j].cb = "onOverflow" } |-> calls[k].arg]

\* C1: after every completed layout pass the visible real items are exactly
\* those with index <= lastVisibleItemIndex, and the value passed to
\* onOverflow, lastVisibleItemIndex + 1, is the number of visible real items.
C1_VisibleIsPrefix ==
  PassCompleted =>
    /\ VisibleItems = { i \in RealItems : i <= lastVisibleItemIndex }
    /\ \A k \in DOMAIN OnOverflowArgs : OnOverflowArgs[k] = Cardinality(VisibleItems)

\* C2: after a completed pass every real item that lies within the
\* container's horizontal bounds (edges inclusive) is visible, and every
\* other real item is hidden.
C2_FitsIffVisible ==
  PassCompleted => \A i \in RealItems : Fits(i) <=> ~els[i].hidden

\* C2 (amended): after a completed pass every real item that does not lie
\* within the container's horizontal bounds is hidden, so every visible item
\* fits, an edge that touches counting as fitting; and when every real item
\* fits, the last of them is visible.
C2_CroppedHiddenAndTouchingFits ==
  PassCompleted =>
    /\ \A i \in RealItems : ~Fits(i) => els[i].hidden
    /\ (rendered > 0 /\ \A i \in RealItems : Fits(i)) => ~els[rendered - 1].hidden

\* C3: every layout pass ends with exactly one invocation of onOverflow,
\* carrying lastVisibleItemIndex + 1.
C3_EveryPassReports ==
  PassRan =>
    /\ Cardinality(DOMAIN OnOverflowArgs) = 1
    /\ \A k \in DOMAIN OnOverflowArgs : OnOverflowArgs[k] = lastVisibleItemIndex + 1

\* C3 (amended): every layout pass that ran to its end, from an animation
\* frame or from the resize handler, invoked onOverflow exactly once, as its
\* first callback, with lastVisibleItemIndex + 1; a pass that finds the refs
\* unset returns before it.
C3_CompletedPassReports ==
  PassCompleted =>
    /\ Cardinality(DOMAIN OnOverflowArgs) = 1
    /\ calls[1] = [cb |-> "onOverflow", arg |-> lastVisibleItemIndex + 1]

\* C4: a second pass over the state a completed pass has left, with the same
\* geometry, direction and overflowOpen, changes nothing: the same items are
\* visible with the same markers, the indicator has the same visibility,
\* markers and offsets, and lastVisibleItemIndex is the same.
C4_PassIdempotent ==
  PassCompleted =>
    LET R == hideOverflowItems(Dom, Layout, last.open, NItems, lastVisibleItemIndex)
    IN /\ R.completed
       /\ R.D.els = els
       /\ R.D.ovf = ovf
       /\ R.lvi = lastVisibleItemIndex

\* C7: after a completed pass, if the pass hid real item i because it is
\* cropped, every real item after it is hidden too.
C7_CroppedHidesRest ==
  PassCompleted =>
    \A i \in last.cropped : \A j \in RealItems : j > i => els[j].hidden

\* C8: at the end of a pass the indicator is shown iff the scan found a
\* cropped item or the pass's overflowOpen is true; when neither holds the
\* indicator is hidden and lastVisibleItemIndex is the item count minus one.
C8_IndicatorShownIff ==
  PassCompleted =>
    /\ ~ovf.hidden <=> (last.isOverflowing \/ last.open)
    /\ ~(last.isOverflowing \/ last.open) =>
         ovf.hidden /\ lastVisibleItemIndex = NItems - 1

\* C6: an item that hide and then show have been applied to is visible with
\* the focusability marker it was rendered with and no was-focusable marker.
C6_RoundTrip ==
  \A i \in RealItems :
    ~els[i].hidden =>
      els[i].isFocusable = items[i].focusable /\ els[i].wasFocusable = Absent

\* C5: a hide call that finds the focus on the visible item it hides leaves
\* the focus on the first focusable element of the container, and not on a
\* hidden element.
C5_FocusSafety ==
  \A k \in DOMAIN last.moved :
    last.moved[k].el.k = "item" =>
      last.moved[k].focus = last.moved[k].first /\ ~last.moved[k].onHidden

\* C9: with the menu open the rendered items are L[0..k] and the menu gets
\* L[k+1..], k being lastVisibleItemIndex at the render (or what
\* getOverflowItems(k + 1) returns when the override is supplied), so that
\* without an override the two lists are disjoint and make up L in order;
\* with the menu closed all of L is rendered and the menu is empty.
C9_SlicingContract ==
  mounted /\ overflow =>
    LET k == lastVisibleItemIndex
        n == NItems
    IN IF overflowOpen
       THEN /\ getOverflowItems = "none" => ItemList(rendered) \o menu = ItemList(n)
            /\ last.op = "render" /\ k # Undefined =>
                 /\ rendered = k + 1
                 /\ menu = IF getOverflowItems = "none"
                           THEN [j \in 1..(n - k - 1) |-> k + j]
                           ELSE CallGetter(getOverflowItems, k + 1, n)
       ELSE rendered = n /\ menu = <<>>

\* The layout L mirrored about a vertical axis: x becomes 2 * axis - x, the
\* margins of every item change sides and the direction flips.
MirrorLayout(L, axis) ==
  LET m(x) == 2 * axis - x
      n == Cardinality(DOMAIN L.rects)
  IN [rtl |-> ~L.rtl,
      container |-> [left |-> m(L.container.right), right |-> m(L.container.left)],
      indicator |-> L.indicator,
      probe |-> [left |-> m(L.probe.right), right |-> m(L.probe.left)],
      rects |-> [i \in DOMAIN L.rects |->
                   [left |-> m(L.rects[i].right), right |-> m(L.rects[i].left)]],
      marginLeft |-> L.marginRight,
      marginRight |-> L.marginLeft]

\* The DOM with the indicator's inline offsets on the other side.
MirrorDom(D) == [D EXCEPT !.ovf.left = D.ovf.right, !.ovf.right = D.ovf.left]

\* C10: a pass on the mirrored layout (rectangles mirrored about an axis,
\* margins swapped, direction flipped) hides and shows the same items and
\* writes the same lastVisibleItemIndex as the pass that ran, and leaves as
\* the indicator's inline `right` what the pass that ran left as inline
\* `left` (and the other way round).
C10_MirrorSymmetry ==
  [][ (last'.op \in {"frame", "resize-handler"} /\ last'.completed) =>
        LET M == hideOverflowItems(MirrorDom(Dom),
                                   MirrorLayout(Layout, Layout.container.right + 1),
                                   last'.open, NItems, lastVisibleItemIndex)
        IN /\ \A i \in RealItems : M.D.els[i].hidden = els'[i].hidden
           /\ M.lvi = lastVisibleItemIndex'
           /\ M.D.ovf.hidden = ovf'.hidden
           /\ M.D.ovf.right = ovf'.left
           /\ M.D.ovf.left = ovf'.right ]_vars

\* ---------------------------------------------------------------- witnesses

\* A pass from an animation frame in which every item fits reports the count.
C3_Witness ==
  /\ PassCompleted /\ last.op = "frame" /\ ~last.isOverflowing
  /\ NItems > 0 /\ calls = <<[cb |-> "onOverflow", arg |-> NItems]>>

\* A pass has hidden some items, kept others and shown the indicator.
C4_Witness ==
  /\ PassCompleted /\ last.isOverflowing /\ lastVisibleItemIndex >= 0
  /\ \E i \in RealItems : els[i].hidden
  /\ ~ovf.hidden

\* A pass has found an item cropped that has items after it.
C7_Witness ==
  PassCompleted /\ \E i \in last.cropped : \E j \in RealItems : j > i

\* A pass that found no cropped item shows the indicator for overflowOpen.
C8_Witness ==
  PassCompleted /\ ~last.isOverflowing /\ last.open /\ ~ovf.hidden /\ rendered > 0

\* A pass has hidden an item that fits, next to an item that is cropped.
C2_Witness ==
  /\ PassCompleted
  /\ \E i \in RealItems : Fits(i) /\ els[i].hidden
  /\ \E j \in RealItems : ~Fits(j) /\ els[j].hidden
  /\ \E j \in RealItems : Fits(j) /\ ~els[j].hidden

\* A render with the menu open splits the items into two non-empty parts.
C9_Witness ==
  /\ last.op = "render" /\ overflow /\ overflowOpen /\ getOverflowItems = "none"
  /\ lastVisibleItemIndex >= 0 /\ lastVisibleItemIndex < NItems - 1
  /\ rendered > 0 /\ menu # <<>>

\* A right-to-left pass has hidden items by cropping and by collision and put
\* the indicator after an item whose margins differ.
C10_Witness ==
  /\ PassCompleted /\ rtl /\ last.isOverflowing /\ lastVisibleItemIndex >= 0
  /\ items[lastVisibleItemIndex].marginLeft # items[lastVisibleItemIndex].marginRight
  /\ \E i \in RealItems : Fits(i) /\ els[i].hidden
  /\ ovf.right # Absent

\* C11: in the worked scenario (left to right, no margins, no positioning
\* correction, overflowOpen false; a container spanning [0,300], items at
\* [0,100], [100,220] and [220,340], an indicator 30 wide) a pass hides the
\* third item, keeps the second visible, sets lastVisibleItemIndex to 1 and
\* shows the indicator at left = 220.
C11_WorkedScenario ==
  ( /\ PassCompleted /\ ~last.open /\ ~rtl /\ padding = 0
    /\ cWidth = Scenario.container
    /\ rendered = Len(Scenario.widths)
    /\ \A k \in DOMAIN Scenario.widths : items[k - 1].w = Scenario.widths[k] ) =>
    /\ ScenarioLayout.container = [left |-> 0, right |-> 300]
    /\ ScenarioLayout.rects[0] = [left |-> 0, right |-> 100]
    /\ ScenarioLayout.rects[1] = [left |-> 100, right |-> 220]
    /\ ScenarioLayout.rects[2] = [left |-> 220, right |-> 340]
    /\ last.cropped = {2}
    /\ els[2].hidden /\ ~els[1].hidden /\ ~els[0].hidden
    /\ lastVisibleItemIndex = 1
    /\ ~ovf.hidden /\ ovf.position = "absolute" /\ ovf.left = Val(220)

\* The first pass of the scenario's toolbar has run.
C11_Witness ==
  /\ PassCompleted /\ ~last.open /\ ~rtl /\ padding = 0
  /\ cWidth = Scenario.container /\ rendered = 3
  /\ items[0].w = 100 /\ items[1].w = 120 /\ items[2].w = 120
  /\ timers = {} /\ lastVisibleItemIndex = 1 /\ ovf.left = Val(220)

\* The positions in `calls` of the onOverflowOpenChange invocations.
OpenChangeCalls == { k \in DOMAIN calls : calls[k].cb = "onOverflowOpenChange" }

\* C12: a resize handler whose overflowOpen (the prop of the render that
\* created it, which is the render the resize event reached) is true runs
\* its layout pass first and then invokes onOverflowOpenChange once, with
\* overflowOpen: false; a handler whose overflowOpen is false runs the pass
\* and does not invoke onOverflowOpenChange.
C12_ResizeHandlerClosesMenu ==
  last.op = "resize-handler" =>
    IF last.open
    THEN /\ OpenChangeCalls = {Len(calls)}
         /\ calls[Len(calls)] = [cb |-> "onOverflowOpenChange", overflowOpen |-> FALSE]
         /\ last.completed =>
              /\ Len(calls) = 2
              /\ calls[1] = [cb |-> "onOverflow", arg |-> lastVisibleItemIndex + 1]
    ELSE /\ OpenChangeCalls = {}
         /\ last.completed => Len(calls) = 1 /\ calls[1].cb = "onOverflow"

\* A resize handler of a render with the menu open has run its pass and
\* asked to close the menu.
C12_Witness ==
  /\ last.op = "resize-handler" /\ last.open /\ last.completed
  /\ Len(calls) = 2 /\ calls[2].cb = "onOverflowOpenChange"

\* C13 (at most once per window): a layout pass of a resize handler runs
\* only when DebounceWait milliseconds have passed since the last one.
C13_OncePerWindow ==
  [][ (last'.op = "resize-handler" /\ last'.completed) => sincePass >= DebounceWait ]_vars

\* C14: at every moment at most one animation-frame callback is pending, it
\* is the one animationFrameId names and it belongs to the last render;
\* none is pending after teardown; and a pass run from an animation frame
\* runs while mounted, with the overflowOpen of the last render.
C14_SinglePendingFrame ==
  /\ Cardinality(frame) <= 1
  /\ frame \subseteq {animationFrameId}
  /\ frame \subseteq {overflowOpen}
  /\ ~mounted => frame = {} /\ animationFrameId = Undefined
  /\ last.op = "frame" => mounted /\ last.open = overflowOpen

\* A render has superseded a render whose frame was still pending: no pass
\* has run yet, and the one pending frame is the new render's.
C14_Witness ==
  /\ last.op = "render" /\ mounted /\ overflow /\ overflowOpen
  /\ lastVisibleItemIndex = Undefined
  /\ frame = {TRUE}

\* What the behavior returned, once it has been called.
BehaviorApplied == popupAccessibility # <<>>
Accessibility == popupAccessibility[1]

\* A slot carries an attribute when the attributes object has an entry for
\* it whose value is not undefined.
Carries(attributes, name) == Property(attributes, name) # JsUndefined

\* C15: popupBehavior attributes.  For disabled in {undefined, false, true}
\* and trapFocus in {undefined, false, true, object}, the trigger slot
\* carries aria-disabled = true exactly when disabled is true and carries no
\* aria-disabled attribute otherwise; the popup slot has role 'dialog' and
\* aria-modal = true exactly when trapFocus is truthy, and otherwise role
\* 'complementary' and no aria-modal attribute.
C15_Attributes ==
  BehaviorApplied =>
    /\ IF popupProps.disabled = JsBoolean(TRUE)
       THEN Property(Accessibility.attributes.trigger, "aria-disabled") = JsBoolean(TRUE)
       ELSE ~Carries(Accessibility.attributes.trigger, "aria-disabled")
    /\ IF ToBoolean(popupProps.trapFocus)
       THEN /\ Property(Accessibility.attributes.popup, "role") = JsString("dialog")
            /\ Property(Accessibility.attributes.popup, "aria-modal") = JsBoolean(TRUE)
       ELSE /\ Property(Accessibility.attributes.popup, "role") = JsString("complementary")
            /\ ~Carries(Accessibility.attributes.popup, "aria-modal")

\* The part of C15 about the popup slot, and about a disabled that is not
\* false.
C15_AttributesButDisabledFalse ==
  BehaviorApplied /\ popupProps.disabled # JsBoolean(FALSE) => C15_Attributes

\* The keys a keyCombinations value binds: those of the array, none for a
\* value that is no array.
BoundKeys(action) ==
  IF isArray(action.keyCombinations)
  THEN { action.keyCombinations.v[k] : k \in DOMAIN action.keyCombinations.v }
  ELSE {}

\* An event is among those of the `on` prop.
OnHas(event) ==
  IF popupProps.on.type = "array"
  THEN \E k \in DOMAIN popupProps.on.v : popupProps.on.v[k] = event
  ELSE popupProps.on = JsString(event)

\* C16: popupBehavior key bindings.  For every value of `on` and of
\* isOpenedByRightClick, Escape is bound to trigger.close and to
\* popup.closeAndFocusTrigger; Enter and Space are bound to trigger.toggle
\* exactly when 'click' is among the events, and to trigger.open exactly when
\* 'hover' is among them and 'context' is not; popup.preventScroll binds
\* ArrowDown, ArrowUp, PageDown, PageUp, Home and End exactly when
\* isOpenedByRightClick is true and 'context' is among the events, and binds
\* no keys otherwise.
C16_KeyBindings ==
  BehaviorApplied =>
    /\ BoundKeys(Accessibility.keyActions.trigger.close) = {"Escape"}
    /\ BoundKeys(Accessibility.keyActions.popup.closeAndFocusTrigger) = {"Escape"}
    /\ BoundKeys(Accessibility.keyActions.trigger.toggle)
         = IF OnHas("click") THEN {"Enter", " "} ELSE {}
    /\ BoundKeys(Accessibility.keyActions.trigger.open)
         = IF OnHas("hover") /\ ~OnHas("context") THEN {"Enter", " "} ELSE {}
    /\ BoundKeys(Accessibility.keyActions.popup.preventScroll)
         = IF popupProps.isOpenedByRightClick = JsBoolean(TRUE) /\ OnHas("context")
           THEN {"ArrowDown", "ArrowUp", "PageDown", "PageUp", "Home", "End"}
           ELSE {}

\* A popup opened by right click, on hover and context: the behavior has
\* bound the scroll keys in the popup and has not bound Enter to open.
C16_Witness ==
  /\ BehaviorApplied
  /\ popupProps.on = JsArray(<<"hover", "context">>)
  /\ popupProps.isOpenedByRightClick = JsBoolean(TRUE)
  /\ "PageDown" \in BoundKeys(Accessibility.keyActions.popup.preventScroll)
  /\ BoundKeys(Accessibility.keyActions.trigger.open) = {}

\* The tabIndex the caller gave the trigger element (undefined without a
\* trigger or without the prop), and whether the element is tabbable as it
\* is: a button, an input, an anchor with href, or rendered as 'button'.
CallerTabIndex ==
  IF popupProps.trigger = <<>> THEN JsUndefined ELSE popupProps.trigger[1].tabIndex
NativelyTabbable ==
  /\ popupProps.trigger # <<>>
  /\ \/ popupProps.trigger[1].type \in {JsString("button"), JsString("input")}
     \/ popupProps.trigger[1].type = JsString("a") /\ popupProps.trigger[1].href # JsUndefined
     \/ popupProps.trigger[1].as = JsString("button")

\* C17: popupBehavior trigger tabIndex.  With tabbableTrigger set, a tabIndex
\* the caller supplied on the trigger element is passed through unchanged;
\* the trigger slot receives tabIndex = 0 only if tabbableTrigger is set, the
\* caller supplied no tabIndex and the trigger element is not natively
\* tabbable; in every other case no tabIndex is added.
C17_TriggerTabIndex ==
  BehaviorApplied =>
    IF ToBoolean(popupProps.tabbableTrigger) /\ CallerTabIndex # JsUndefined
    THEN Property(Accessibility.attributes.trigger, "tabIndex") = CallerTabIndex
    ELSE IF /\ ToBoolean(popupProps.tabbableTrigger)
            /\ popupProps.trigger # <<>>
            /\ ~NativelyTabbable
         THEN Property(Accessibility.attributes.trigger, "tabIndex")
                \in {JsNumber("0"), JsUndefined}
         ELSE ~Carries(Accessibility.attributes.trigger, "tabIndex")

\* C17 for callers whose tabIndex, when they supply one, is truthy.
C17_TriggerTabIndexButFalsy ==
  BehaviorApplied /\ (CallerTabIndex = JsUndefined \/ ToBoolean(CallerTabIndex))
    => C17_TriggerTabIndex

\* The indicator, placed after item i with the item's trailing margin
\* between them, would pass the container's edge.
Collides(i) ==
  IF rtl
  THEN Layout.rects[i].left - Layout.indicator.width - items[i].marginLeft
         < Layout.container.left
  ELSE Layout.rects[i].right + Layout.indicator.width + items[i].marginRight
         > Layout.container.right

\* The space the indicator has left after item i, once placed.
Slack(i) ==
  IF rtl
  THEN Layout.rects[i].left - Layout.indicator.width - items[i].marginLeft
         - Layout.container.left
  ELSE Layout.container.right
         - (Layout.rects[i].right + Layout.indicator.width + items[i].marginRight)

\* The real items that are neither cropped nor colliding.
Candidates == { i \in RealItems : Fits(i) /\ ~Collides(i) }

\* The highest index of a non-empty set of items.
Highest(S) == CHOOSE i \in S : \A j \in S : j <= i

\* C18: last-visible selection.  In a completed pass that has found an item
\* cropped, every item that is not cropped and lies above the last visible
\* item would collide with the indicator and is hidden; the last visible
\* item is the highest item that is neither cropped nor colliding, an item
\* that touches the edge with the indicator not being colliding, and
\* lastVisibleItemIndex is its index.
C18_LastVisibleSelection ==
  PassCompleted /\ (\E j \in RealItems : ~Fits(j)) =>
    /\ \A i \in RealItems :
         Fits(i) /\ (last.lastVisibleItem = Undefined \/ i > last.lastVisibleItem)
           => Collides(i) /\ els[i].hidden
    /\ IF Candidates = {} THEN last.lastVisibleItem = Undefined
       ELSE /\ last.lastVisibleItem = Highest(Candidates)
            /\ lastVisibleItemIndex = Highest(Candidates)
            /\ ~els[Highest(Candidates)].hidden

\* A pass has cropped an item, has hidden another that fits but would
\* collide with the indicator, and has chosen as last visible an item that
\* leaves the indicator exactly the space it needs.
C18_Witness ==
  /\ PassCompleted
  /\ \E j \in RealItems : ~Fits(j)
  /\ \E i \in RealItems : Fits(i) /\ Collides(i) /\ els[i].hidden
  /\ last.lastVisibleItem # Undefined
  /\ Slack(last.lastVisibleItem) = 0

\* C18 without its condition that an item has been found cropped.
C18_HighestNotColliding ==
  PassCompleted /\ Candidates # {} => last.lastVisibleItem = Highest(Candidates)

\* C19: short-circuit after the boundary.  Once a pass has chosen the last
\* visible item, every item with a lower index is visible at the end of the
\* pass, and none of them has been found cropped or hidden as colliding.
C19_LowerItemsVisible ==
  PassCompleted /\ last.lastVisibleItem # Undefined =>
    \A i \in RealItems : i < last.lastVisibleItem =>
      /\ ~els[i].hidden
      /\ i \notin last.cropped

\* The part of C19 that the scan's way of stopping does not affect: below
\* the last visible item no item is found cropped, and none is hidden by
\* the pass.
C19_LowerItemsNotHidden ==
  PassCompleted /\ last.lastVisibleItem # Undefined =>
    \A i \in RealItems : i < last.lastVisibleItem =>
      /\ i \notin last.cropped
      /\ \A k \in DOMAIN last.moved : last.moved[k].el # ItemEl(i)

\* The indicator's inline offset: style.right when rtl, style.left otherwise.
InlineOffset == IF rtl THEN ovf.right ELSE ovf.left

\* The positioning correction: the distance between the container's logical
\* start and the offset probe.
Correction ==
  IF rtl THEN Layout.probe.right - Layout.container.right
  ELSE Layout.container.left - Layout.probe.left

\* The last pass has shown the indicator.
IndicatorShown == PassCompleted /\ (last.isOverflowing \/ last.open)

\* C20: overflow indicator position.  When a pass shows the indicator and
\* has a last visible item, the indicator's inline offset is the distance
\* from the container's logical start to that item's trailing edge, plus the
\* item's trailing margin, plus the correction; when no item is visible the
\* offset is the correction alone and lastVisibleItemIndex is -1.
C20_IndicatorPosition ==
  IndicatorShown =>
    /\ last.lastVisibleItem # Undefined =>
         InlineOffset =
           Val(IF rtl
               THEN Layout.container.right - Layout.rects[last.lastVisibleItem].left
                      + items[last.lastVisibleItem].marginLeft + Correction
               ELSE Layout.rects[last.lastVisibleItem].right - Layout.container.left
                      + items[last.lastVisibleItem].marginRight + Correction)
    /\ VisibleItems = {} =>
         /\ InlineOffset = Val(Correction)
         /\ lastVisibleItemIndex = -1
    /\ last.lastVisibleItem = Undefined <=> VisibleItems = {}

\* A right-to-left pass has shown the indicator after a last visible item
\* that has a trailing margin, with a correction that is not zero.
C20_Witness ==
  /\ IndicatorShown
  /\ rtl
  /\ last.lastVisibleItem # Undefined
  /\ items[last.lastVisibleItem].marginLeft > 0
  /\ Correction > 0
  /\ last.isOverflowing

\* A pass has shown the indicator of a toolbar without items.
C20_WitnessNoItems ==
  /\ IndicatorShown
  /\ NItems = 0
  /\ lastVisibleItemIndex = -1

\* The step is a layout pass that starts with a ref unset: the toolbar is
\* torn down, or was rendered without the overflow prop.
PassAborted == last'.op \in {"frame", "resize-handler"} /\ ~(mounted /\ overflow)

\* C21: an aborted pass is a no-op.  A layout pass that starts with a ref
\* unset leaves every item's visibility and focusability markers, the
\* indicator's visibility and position, the focused element and
\* lastVisibleItemIndex as they were, and does not invoke onOverflow.
C21_AbortedPassNoOp ==
  [][ PassAborted =>
        /\ ~last'.completed
        /\ els' = els
        /\ ovf' = ovf
        /\ focus' = focus
        /\ lastVisibleItemIndex' = lastVisibleItemIndex
        /\ \A k \in DOMAIN calls' : calls'[k].cb # "onOverflow" ]_vars

\* The animation frame of a toolbar rendered without the overflow prop has
\* run, in a container that crops an item, and the item is visible.
C21_Witness ==
  /\ last.op = "frame" /\ ~last.completed
  /\ mounted /\ ~overflow
  /\ calls = <<>>
  /\ \E i \in RealItems : ~Fits(i) /\ ~els[i].hidden

\* C22: item state invariant.  After any sequence of hide and show calls
\* each item is either hidden with its focusability marker equal to 'false',
\* or visible without a was-focusable marker (the was-focusable marker is
\* only on hidden items); hide on a hidden item and show on a visible item
\* change nothing.
C22_ItemStates ==
  \A i \in DOMAIN els :
    /\ \/ els[i].hidden /\ els[i].isFocusable = Val("false")
       \/ ~els[i].hidden /\ els[i].wasFocusable = Absent
    /\ els[i].wasFocusable # Absent => els[i].hidden
    /\ i \in RealItems /\ els[i].hidden => hide(Dom, ItemEl(i)) = Dom
    /\ i \in RealItems /\ ~els[i].hidden => show(Dom, ItemEl(i)) = Dom

\* An item is hidden and carries the was-focusable marker, while another,
\* rendered with an empty focusability marker, has been hidden and shown
\* again; the last call was a hide.
C22_Witness ==
  /\ last.op = "hide"
  /\ \E i \in RealItems : els[i].hidden /\ els[i].wasFocusable = Val("true")
  /\ \E j \in RealItems :
       ~els[j].hidden /\ items[j].focusable = Val("") /\ els[j].isFocusable = Absent

\* C23: no callbacks after teardown.  Once the toolbar has been torn down,
\* no step invokes onOverflow or onOverflowOpenChange, whatever was pending
\* at the moment of teardown.
C23_NoCallbacksAfterTeardown ==
  ~mounted =>
    \A k \in DOMAIN calls : calls[k].cb \notin {"onOverflow", "onOverflowOpenChange"}

\* The part of C23 about onOverflow, and about the animation frame: after
\* teardown no frame is pending and onOverflow is not invoked.
C23_NoOnOverflowAfterTeardown ==
  ~mounted =>
    /\ frame = {}
    /\ \A k \in DOMAIN calls : calls[k].cb # "onOverflow"

====
